---- MODULE Spec2Model ----
(***************************************************************************)
(* Model of the parseslowlog command (cmd/loadspec/parse_slowlog.go):      *)
(* normalise the target URL argument, scan the slowlog lines into entries, *)
(* sort them by timestamp, then emit them with relative delays until the   *)
(* optional maximum duration is reached.                                   *)
(*                                                                         *)
(* Strings the code inspects (URL argument, URLs) are sequences of         *)
(* one-character strings.  Timestamps are small naturals standing for      *)
(* t.UnixNano().                                                           *)
(***************************************************************************)
EXTENDS Integers, Sequences, FiniteSets, TLC

\* ---------------------------------------------------------------- bounds
MaxLines == 3
MaxTs == 2
MaxDur == 2
MaxBody == 3

VARIABLES
  args,               \* positional arguments (0 or 1 string)
  indexOverride,      \* --index_override
  maxDuration,        \* --max_duration, in nanoseconds
  stdin,              \* the input lines
  pc,                 \* position in RunE
  urlArg,             \* normalised URL argument
  fields,             \* the reused named-match map
  pos,                \* number of lines the scanner has consumed
  count,              \* accepted-line counter
  entries,            \* loadspec.ByDelaySinceLastNanos
  i,                  \* emit loop index
  elapsed,
  previousTimestamp,
  out,                \* JSON records written to stdout
  diag,               \* "Test duration" lines written to stderr
  err                 \* how the run failed, "" if it did not

vars == <<args, indexOverride, maxDuration, stdin, pc, urlArg, fields, pos,
          count, entries, i, elapsed, previousTimestamp, out, diag, err>>

\* ------------------------------------------------------- string helpers
Http == <<"h", "t", "t", "p", ":", "/", "/">>
Https == <<"h", "t", "t", "p", "s", ":", "/", "/">>
Slash == <<"/">>
SearchSuffix == <<"_", "s", "e", "a", "r", "c", "h">>
SearchTypeParam == <<"?", "s", "e", "a", "r", "c", "h", "_", "t", "y", "p", "e", "=">>
QueryCategory == "index.search.slowlog.query"

\* strings.HasPrefix
HasPrefix(s, p) == Len(s) >= Len(p) /\ SubSeq(s, 1, Len(p)) = p

\* strings.TrimPrefix
TrimPrefix(s, p) == IF HasPrefix(s, p) THEN SubSeq(s, Len(p) + 1, Len(s)) ELSE s

\* strings.Index for a one-character needle: 0-based, -1 when absent
Index(s, c) ==
  IF \E k \in 1..Len(s) : s[k] = c
  THEN (CHOOSE k \in 1..Len(s) : s[k] = c /\ \A j \in 1..(k - 1) : s[j] # c) - 1
  ELSE -1

\* strings.ToLower on the characters the model uses
LowerChar(c) == IF c = "Q" THEN "q" ELSE IF c = "F" THEN "f" ELSE c
ToLower(s) == [k \in 1..Len(s) |-> LowerChar(s[k])]

\* strings.Join(path, "/")
RECURSIVE Join(_)
Join(path) ==
  IF Len(path) = 0 THEN <<>>
  ELSE IF Len(path) = 1 THEN path[1]
  ELSE path[1] \o Slash \o Join(Tail(path))

\* ------------------------------------------------- URL argument (44-62)
\* if i > 0 { urlArg = urlArg[:i] }
Truncate(u, idx) == IF idx > 0 THEN SubSeq(u, 1, idx) ELSE u

NormalizeUrl(a) ==
  LET prefix == IF HasPrefix(a, Http) THEN Http
                ELSE IF HasPrefix(a, Https) THEN Https
                ELSE <<>>
      u == TrimPrefix(a, prefix)
  IN prefix \o Truncate(u, Index(u, "/"))

\* ----------------------------------------------------- the input lines
\* A line is abstracted to what the regular expression and time.Parse make
\* of it: whether it matches, its log category, and its timestamp.
Line(cat, ts, tsok) == [cat |-> cat, ts |-> ts, tsok |-> tsok]

Lines ==
  {Line("nomatch", 0, TRUE), Line("index.search.slowlog.fetch", 0, TRUE),
   Line(QueryCategory, 0, FALSE)}
  \cup {Line(QueryCategory, t, TRUE) : t \in 0..MaxTs}

SeqsUpTo(S, n) == UNION {[1..k -> S] : k \in 0..n}

\* re.FindAllStringSubmatch(line, -1) is non-empty
Matches(line) == line.cat # "nomatch"

NoFields == [log_type |-> "", host |-> <<>>, ts |-> 0, tsok |-> TRUE,
             index |-> <<>>, types |-> <<>>, search_type |-> <<>>,
             source |-> <<>>]

\* the named matches of a matching line
FieldsOf(line) ==
  [log_type |-> line.cat, host |-> <<"n">>, ts |-> line.ts, tsok |-> line.tsok,
   index |-> <<"x">>, types |-> <<"t">>, search_type |-> <<"Q", "F">>,
   source |-> <<"{", "}">>]

Accepted_all(f) == TRUE

\* fields[logTypeField] == "index.search.slowlog.query"
Accepted(f) == f.log_type = QueryCategory

\* host := fields[hostField]; if urlArg != "" { host = urlArg }
Host(f, u) == IF u # <<>> THEN u ELSE f.host

IndexFor_first(f, ov, c) == IF Len(ov) > 0 THEN ov[1] ELSE f.index

\* index := fields[indexField]; if len(indexOverride) > 0 { ... count % len }
IndexFor(f, ov, c) == IF Len(ov) > 0 THEN ov[(c % Len(ov)) + 1] ELSE f.index

\* path joined with "/", then "?search_type=<lower>" when search_type != ""
BuildURL(host, index, types, searchType) ==
  Join(<<host, index, types, SearchSuffix>>)
    \o (IF searchType # <<>> THEN SearchTypeParam \o ToLower(searchType) ELSE <<>>)

\* the entry built from the current fields; line is a ghost field recording
\* the 1-based input position the entry was built from
NewEntry(f, u, ov, c, p) ==
  [ID |-> 0,
   URL |-> BuildURL(Host(f, u), IndexFor(f, ov, c), f.types, f.search_type),
   Source |-> f.source,
   DelaySinceLastNanos |-> f.ts,
   line |-> p]

\* ------------------------------------------------------------- sorting
\* loadspec.ByDelaySinceLastNanos.Less
Less(a, b) == a.DelaySinceLastNanos < b.DelaySinceLastNanos

Perms(n) == {p \in [1..n -> 1..n] : \A a, b \in 1..n : a # b => p[a] # p[b]}

Permuted(s, p) == [k \in 1..Len(s) |-> s[p[k]]]

IsSorted(s) == \A a, b \in 1..Len(s) : a < b => ~Less(s[b], s[a])

\* every ordering of the entries of s
AllOrderings(s) == {Permuted(s, p) : p \in Perms(Len(s))}

SortOutcomes_unsorted(s) == AllOrderings(s)

SortOutcomes_none(s) == {s}

\* sort.Sort(entries): some ordering of the same entries that is sorted under
\* Less; sort.Sort does not promise which one when elements compare equal
SortOutcomes(s) == {t \in AllOrderings(s) : IsSorted(t)}

\* ------------------------------------------------------------ emitting
Delay_noFirst(idx, cur, prev) == cur - prev

\* if i == 0 { e.DelaySinceLastNanos = 0 } else { e.DelaySinceLastNanos -= previousTimestamp }
Delay(idx, cur, prev) == IF idx = 0 THEN 0 ELSE cur - prev

ShouldBreak_strict(el, d) == d > 0 /\ el > d

ShouldBreak_nonZero(el, d) == d # 0 /\ el >= d

\* maxDuration.Nanoseconds() > 0 && elapsed >= maxDuration.Nanoseconds()
ShouldBreak(el, d) == d > 0 /\ el >= d

\* json encoding of an entry
Encode(e) == [id |-> e.ID, url |-> e.URL, source |-> e.Source,
              delaySinceLastNanos |-> e.DelaySinceLastNanos]

\* ---------------------------------------------------------------- Init
ArgChoices == {<<>>, <<Http \o <<"a">> \o Slash \o <<"p">>>>}

OverrideChoices == {<<>>, << <<"a">>, <<"b">> >>}

InitRest ==
  /\ pc = "args"
  /\ urlArg = <<>>
  /\ fields = NoFields
  /\ pos = 0
  /\ count = 0
  /\ entries = <<>>
  /\ i = 0
  /\ elapsed = 0
  /\ previousTimestamp = 0
  /\ out = <<>>
  /\ diag = <<>>
  /\ err = ""

Init ==
  /\ args \in ArgChoices
  /\ indexOverride \in OverrideChoices
  /\ maxDuration \in (-1)..MaxDur
  /\ stdin \in SeqsUpTo(Lines, MaxLines)
  /\ InitRest

\* ------------------------------------------------------------- actions
\* lines 44-62
NormalizeArg ==
  /\ pc = "args"
  /\ urlArg' = IF Len(args) > 0 THEN NormalizeUrl(args[1]) ELSE <<>>
  /\ pc' = "scan"
  /\ UNCHANGED <<args, indexOverride, maxDuration, stdin, fields, pos, count,
                 entries, i, elapsed, previousTimestamp, out, diag, err>>

AtLine == pc = "scan" /\ pos < Len(stdin)

ScanNoMatch_skip ==
  /\ AtLine
  /\ ~Matches(stdin[pos + 1])
  /\ pos' = pos + 1
  /\ UNCHANGED <<args, indexOverride, maxDuration, stdin, pc, urlArg, fields,
                 count, entries, i, elapsed, previousTimestamp, out, diag, err>>

\* line 79: [0] on an empty match list panics
ScanNoMatch ==
  /\ AtLine
  /\ ~Matches(stdin[pos + 1])
  /\ pc' = "failed"
  /\ err' = "index out of range"
  /\ UNCHANGED <<args, indexOverride, maxDuration, stdin, urlArg, fields, pos,
                 count, entries, i, elapsed, previousTimestamp, out, diag>>

\* lines 79-89: a matching line of another category is skipped
ScanSkip ==
  /\ AtLine
  /\ Matches(stdin[pos + 1])
  /\ fields' = FieldsOf(stdin[pos + 1])
  /\ ~Accepted(fields')
  /\ pos' = pos + 1
  /\ UNCHANGED <<args, indexOverride, maxDuration, stdin, pc, urlArg, count,
                 entries, i, elapsed, previousTimestamp, out, diag, err>>

\* lines 94-97: time.Parse fails
ScanBadTime ==
  /\ AtLine
  /\ Matches(stdin[pos + 1])
  /\ fields' = FieldsOf(stdin[pos + 1])
  /\ Accepted(fields')
  /\ ~fields'.tsok
  /\ pc' = "failed"
  /\ err' = "time parse"
  /\ UNCHANGED <<args, indexOverride, maxDuration, stdin, urlArg, pos, count,
                 entries, i, elapsed, previousTimestamp, out, diag>>

\* lines 79-121: an entry is built and appended
ScanAccept ==
  /\ AtLine
  /\ Matches(stdin[pos + 1])
  /\ fields' = FieldsOf(stdin[pos + 1])
  /\ Accepted(fields')
  /\ fields'.tsok
  /\ entries' = Append(entries, NewEntry(fields', urlArg, indexOverride, count, pos + 1))
  /\ count' = count + 1
  /\ pos' = pos + 1
  /\ UNCHANGED <<args, indexOverride, maxDuration, stdin, pc, urlArg, i,
                 elapsed, previousTimestamp, out, diag, err>>

\* lines 123-133: input exhausted, sort
SortEntries ==
  /\ pc = "scan"
  /\ pos = Len(stdin)
  /\ entries' \in SortOutcomes(entries)
  /\ pc' = "emit"
  /\ UNCHANGED <<args, indexOverride, maxDuration, stdin, urlArg, fields, pos,
                 count, i, elapsed, previousTimestamp, out, diag, err>>

\* lines 134-151: one iteration of the emit loop
EmitEntry ==
  /\ pc = "emit"
  /\ i < Len(entries)
  /\ LET e == entries[i + 1]
         currTimestamp == e.DelaySinceLastNanos
         e2 == [e EXCEPT !.ID = i,
                         !.DelaySinceLastNanos = Delay(i, currTimestamp, previousTimestamp)]
     IN /\ entries' = [entries EXCEPT ![i + 1] = e2]
        /\ previousTimestamp' = currTimestamp
        /\ out' = Append(out, Encode(e2))
        /\ elapsed' = elapsed + e2.DelaySinceLastNanos
        /\ IF ShouldBreak(elapsed', maxDuration)
           THEN pc' = "report" /\ i' = i
           ELSE pc' = "emit" /\ i' = i + 1
  /\ UNCHANGED <<args, indexOverride, maxDuration, stdin, urlArg, fields, pos,
                 count, diag, err>>

\* lines 152-153: the loop is over (exhausted or broken out of)
Finish ==
  /\ pc = "report" \/ (pc = "emit" /\ i = Len(entries))
  /\ diag' = Append(diag, elapsed)
  /\ pc' = "done"
  /\ UNCHANGED <<args, indexOverride, maxDuration, stdin, urlArg, fields, pos,
                 count, entries, i, elapsed, previousTimestamp, out, err>>

Next ==
  \/ NormalizeArg
  \/ ScanNoMatch
  \/ ScanSkip
  \/ ScanBadTime
  \/ ScanAccept
  \/ SortEntries
  \/ EmitEntry
  \/ Finish

Spec == Init /\ [][Next]_vars

\* the URL argument drawn widely, the input kept short
UrlBodies == SeqsUpTo({"a", ":", "/"}, MaxBody)

UrlArgChoices ==
  {<<>>} \cup {<<p \o b>> : p \in {<<>>, Http, Https}, b \in UrlBodies}

InitUrl ==
  /\ args \in UrlArgChoices
  /\ indexOverride = <<>>
  /\ maxDuration \in {0, 1}
  /\ stdin \in SeqsUpTo(Lines, 2)
  /\ InitRest

SpecUrl == InitUrl /\ [][Next]_vars

\* ------------------------------------------------- vocabulary of claims
\* the sort has run
Sorted == pc \in {"emit", "report", "done"}

\* positions of the query-category lines of the input
QueryLines == {p \in 1..Len(stdin) : stdin[p].cat = QueryCategory}

\* number of query-category lines before input position p
Rank(p) == Cardinality({q \in 1..(p - 1) : stdin[q].cat = QueryCategory})

\* original absolute timestamp of the k-th entry, read from its input line
AbsTs(k) == stdin[entries[k].line].ts

\* relative delay of the k-th sorted entry
RelDelay(k) == IF k = 1 THEN 0 ELSE AbsTs(k) - AbsTs(k - 1)

RECURSIVE CumDelay(_)
CumDelay(k) == IF k = 0 THEN 0 ELSE CumDelay(k - 1) + RelDelay(k)

\* sum of the delays of the first k emitted records
RECURSIVE SumOut(_)
SumOut(k) == IF k = 0 THEN 0 ELSE SumOut(k - 1) + out[k].delaySinceLastNanos

\* length of the shortest prefix of the sorted entries whose cumulative delay
\* reaches maxDuration, or of the whole sequence when none does
ShortestPrefix ==
  LET hits == {k \in 1..Len(entries) : CumDelay(k) >= maxDuration}
  IN IF hits = {} THEN Len(entries)
     ELSE CHOOSE k \in hits : \A j \in hits : k <= j

\* the URL expected for the entry built from input line p with index idx
ExpectedURL(p, idx) ==
  LET f == FieldsOf(stdin[p])
  IN BuildURL(IF urlArg # <<>> THEN urlArg ELSE f.host, idx, f.types, f.search_type)

\* scheme://host[:port]: an optional scheme prefix, then no path separator
WellFormedTarget(u) ==
  \E p \in {<<>>, Http, Https} :
    HasPrefix(u, p) /\ \A k \in (Len(p) + 1)..Len(u) : u[k] # "/"

\* ---------------------------------------------------------------- C1
\* C1: with a maximum duration D > 0, the sum of the delaySinceLastNanos of
\* the emitted records never exceeds D.
C1_SumWithinMax ==
  maxDuration > 0 => SumOut(Len(out)) <= maxDuration

C3_Ordering ==
  \A k \in 1..(Len(out) - 1) : AbsTs(k) <= AbsTs(k + 1)

C3_Witness ==
  /\ pc = "done"
  /\ \E j, k \in 1..Len(out) :
       j < k /\ entries[j].line > entries[k].line /\ AbsTs(j) < AbsTs(k)

\* ---------------------------------------------------------------- C4
\* C4 as stated: two emitted entries with equal absolute timestamps keep the
\* relative order in which their lines were read.
C4_Stable ==
  \A j, k \in 1..Len(out) :
    (j < k /\ AbsTs(j) = AbsTs(k)) => entries[j].line < entries[k].line

\* C4 amended: the ordering step keeps every accepted entry exactly once and
\* puts entries with different absolute timestamps in timestamp order; the
\* relative order of entries with equal timestamps is not fixed.
C4_SortedPermutation ==
  Sorted =>
    /\ {entries[k].line : k \in 1..Len(entries)} = QueryLines
    /\ Len(entries) = Cardinality(QueryLines)
    /\ \A j, k \in 1..Len(entries) : AbsTs(j) < AbsTs(k) => j < k

C4_Witness ==
  /\ pc = "done"
  /\ Len(out) = 3
  /\ \E j, k \in 1..Len(out) :
       j < k /\ AbsTs(j) = AbsTs(k) /\ entries[j].line > entries[k].line
  /\ \E j, k \in 1..Len(out) : AbsTs(j) < AbsTs(k)

\* ---------------------------------------------------------------- C5
\* C5: every emitted delaySinceLastNanos is the relative delay: 0 for the
\* first record, else the absolute timestamp of the sorted entry minus that
\* of the one before it, and never negative.
C5_RelativeDelay ==
  \A k \in 1..Len(out) :
    /\ k = 1 => out[k].delaySinceLastNanos = 0
    /\ k > 1 => out[k].delaySinceLastNanos = AbsTs(k) - AbsTs(k - 1)
    /\ out[k].delaySinceLastNanos >= 0

C5_Witness ==
  /\ pc = "done"
  /\ Len(out) >= 2
  /\ AbsTs(1) > 0
  /\ out[2].delaySinceLastNanos > 0

\* ---------------------------------------------------------------- C6
\* C6 as stated: with a non-empty index_override L the k-th emitted record
\* (0-based, emission order) has index L[k mod len(L)] in its URL.
C6_EmissionOrder ==
  Len(indexOverride) > 0 =>
    \A k \in 1..Len(out) :
      out[k].url =
        ExpectedURL(entries[k].line, indexOverride[((k - 1) % Len(indexOverride)) + 1])

\* C6 amended: with a non-empty index_override L the record built from the
\* k-th accepted line (0-based, input encounter order) has index
\* L[k mod len(L)] in its URL, wherever the sort places it in the output.
C6_EncounterOrder ==
  Len(indexOverride) > 0 =>
    /\ \A k \in 1..Len(entries) :
         entries[k].URL =
           ExpectedURL(entries[k].line,
                       indexOverride[(Rank(entries[k].line) % Len(indexOverride)) + 1])
    /\ \A k \in 1..Len(out) : out[k].url = entries[k].URL

C6_Witness ==
  /\ pc = "done"
  /\ Len(indexOverride) = 2
  /\ Len(out) = 3
  /\ entries[1].line # 1
  /\ out[1].url # out[2].url

\* ---------------------------------------------------------------- C7
\* C7: every emitted record's id is its 0-based output position, and lines
\* of another category produce no record and leave the accepted-line counter
\* (hence ids and round-robin positions of other records) untouched.
C7_Ids ==
  /\ \A k \in 1..Len(out) : out[k].id = k - 1
  /\ \A k \in 1..Len(entries) : stdin[entries[k].line].cat = QueryCategory
  /\ count = Cardinality({p \in 1..pos : stdin[p].cat = QueryCategory})
  /\ Len(entries) = count

C7_Witness ==
  /\ pc = "done"
  /\ Len(out) >= 2
  /\ \E p, q \in 1..Len(stdin) :
       p < q /\ stdin[p].cat # QueryCategory /\ stdin[q].cat = QueryCategory
  /\ out[Len(out)].id = Len(out) - 1

\* ---------------------------------------------------------------- C8
\* C8: a line that does not match the pattern is never skipped and nothing
\* after it is processed; the run fails there, and a run whose input holds
\* such a line never reaches the sort or emits a record.
C8_FailFast ==
  /\ \A p \in 1..pos : Matches(stdin[p])
  /\ (\E p \in 1..Len(stdin) : ~Matches(stdin[p])) =>
       (out = <<>> /\ ~Sorted)
  /\ (pos < Len(stdin) /\ ~Matches(stdin[pos + 1]) /\ pc # "scan" /\ pc # "args") =>
       (pc = "failed" /\ err = "index out of range")

C8_Witness ==
  /\ pc = "failed"
  /\ err = "index out of range"
  /\ Len(entries) >= 1
  /\ pos + 1 < Len(stdin)
  /\ stdin[pos + 2].cat = QueryCategory
  /\ out = <<>>

\* ---------------------------------------------------------------- C9
\* C9: for every non-empty target_url argument the normalised override is
\* scheme://host[:port] (optional http:// or https://, then no '/'), and it
\* is the first URL segment of every emitted record.
C9_Normalized ==
  (pc # "args" /\ Len(args) > 0 /\ args[1] # <<>>) =>
    /\ WellFormedTarget(urlArg)
    /\ \A k \in 1..Len(out) : HasPrefix(out[k].url, urlArg \o Slash)

\* ---------------------------------------------------------------- C10
\* C10 as stated: for every non-zero max_duration, negative ones included,
\* nothing is emitted after an entry at which elapsed >= max_duration.
C10_NonZeroCutoff ==
  \A k \in 1..(Len(out) - 1) : ~(maxDuration # 0 /\ SumOut(k) >= maxDuration)

\* C10 amended: the cutoff applies only for max_duration > 0; zero and
\* negative values both mean unlimited, and every entry is emitted.
C10_PositiveCutoff ==
  /\ \A k \in 1..(Len(out) - 1) : ~(maxDuration > 0 /\ SumOut(k) >= maxDuration)
  /\ pc = "report" => (maxDuration > 0 /\ elapsed >= maxDuration)
  /\ (pc = "done" /\ maxDuration <= 0) => Len(out) = Len(entries)

C10_Witness ==
  /\ pc = "done"
  /\ maxDuration < 0
  /\ Len(out) >= 2
  /\ elapsed > 0

====
